---- MODULE Spec2Model ----
(***************************************************************************)
(* Model of terminal.py: the Terminal styler (ANSI SGR tables, colour      *)
(* support detection, styled printing and the color_context scope).        *)
(*                                                                         *)
(* A Python str is a sequence of tokens.  A token is either a piece of     *)
(* text or one escape sequence ESC[<n>m, identified by its SGR parameter n.*)
(* Colour and style names are spelled letter by letter so that str.lower() *)
(* is computed, not assumed.                                               *)
(***************************************************************************)
EXTENDS Integers, Sequences, FiniteSets, TLC

VARIABLES
    force_color,     \* Terminal._force_color (constructor argument)
    stdout_isatty,   \* hasattr(sys.stdout, "isatty") and sys.stdout.isatty()
    NO_COLOR,        \* os.environ.get("NO_COLOR") when the Terminal is built
    color_enabled,   \* Terminal._color_enabled
    builtins_print,  \* the function builtins.print is bound to
    scopes,          \* open color_context generator frames, innermost last
    exc,             \* an exception raised in a scope body is propagating
    last,            \* the most recent call and its arguments
    written,         \* what that call wrote to sys.stdout
    trace            \* observations of that call (return value, notices, ...)

vars == << force_color, stdout_isatty, NO_COLOR, color_enabled, builtins_print,
           scopes, exc, last, written, trace >>

----------------------------------------------------------------------------
(* Python values *)

T(s) == [esc |-> -1, txt |-> s]
Esc(n) == [esc |-> n, txt |-> ""]
S(pieces) == [i \in DOMAIN pieces |-> T(pieces[i])]

None == [none |-> TRUE, s |-> << >>]
Str(s) == [none |-> FALSE, s |-> s]

\* bool(x) of an Optional[str]
Truthy(x) == ~x.none /\ x.s # << >>

\* str(x) of an Optional[str]
StrOf(x) == IF x.none THEN S(<<"None">>) ELSE x.s

\* the styles argument: None, one name, or a list of names
NoStyles == [tag |-> "none", items |-> << >>]
OneStyle(s) == [tag |-> "str", items |-> << s >>]
StyleList(l) == [tag |-> "list", items |-> l]

RECURSIVE Join(_, _)
Join(strings, sep) ==
    IF strings = << >> THEN << >>
    ELSE IF Len(strings) = 1 THEN strings[1]
    ELSE strings[1] \o sep \o Join(Tail(strings), sep)

\* repr of a list of str, as str(list) prints it
ReprList(l) ==
    S(<<"[">>) \o Join([i \in DOMAIN l |-> S(<<"'">>) \o l[i] \o S(<<"'">>)], S(<<", ">>))
        \o S(<<"]">>)

StylesTruthy(st) ==
    CASE st.tag = "none" -> FALSE
      [] st.tag = "str" -> st.items[1] # << >>
      [] OTHER -> st.items # << >>

StrOfStyles(st) ==
    CASE st.tag = "none" -> S(<<"None">>)
      [] st.tag = "str" -> st.items[1]
      [] OTHER -> ReprList(st.items)

UpperCase == <<"A","B","C","D","E","F","G","H","I","J","K","L","M",
               "N","O","P","Q","R","S","T","U","V","W","X","Y","Z">>
LowerCase == <<"a","b","c","d","e","f","g","h","i","j","k","l","m",
               "n","o","p","q","r","s","t","u","v","w","x","y","z">>

LowerMap == [c \in { UpperCase[i] : i \in DOMAIN UpperCase } |->
                LowerCase[CHOOSE i \in DOMAIN UpperCase : UpperCase[i] = c]]

LowerChar(c) == IF c \in DOMAIN LowerMap THEN LowerMap[c] ELSE c

\* faulty variant: the name is looked up as given, without .lower()
lower_nocase(s) == s

\* str.lower()
lower(s) == [i \in DOMAIN s |-> IF s[i].esc = -1 THEN T(LowerChar(s[i].txt)) ELSE s[i]]

----------------------------------------------------------------------------
(* The enumerations *)

Style ==
    << [name |-> S(<<"B", "O", "L", "D">>), value |-> <<Esc(1)>>],
       [name |-> S(<<"D", "I", "M">>), value |-> <<Esc(2)>>],
       [name |-> S(<<"I", "T", "A", "L", "I", "C">>), value |-> <<Esc(3)>>],
       [name |-> S(<<"U", "N", "D", "E", "R", "L", "I", "N", "E">>), value |-> <<Esc(4)>>],
       [name |-> S(<<"B", "L", "I", "N", "K">>), value |-> <<Esc(5)>>],
       [name |-> S(<<"R", "E", "V", "E", "R", "S", "E">>), value |-> <<Esc(7)>>],
       [name |-> S(<<"H", "I", "D", "D", "E", "N">>), value |-> <<Esc(8)>>],
       [name |-> S(<<"S", "T", "R", "I", "K", "E">>), value |-> <<Esc(9)>>] >>

TerminalColor ==
    << [name |-> S(<<"B", "L", "A", "C", "K">>), value |-> <<Esc(30)>>],
       [name |-> S(<<"R", "E", "D">>), value |-> <<Esc(31)>>],
       [name |-> S(<<"G", "R", "E", "E", "N">>), value |-> <<Esc(32)>>],
       [name |-> S(<<"Y", "E", "L", "L", "O", "W">>), value |-> <<Esc(33)>>],
       [name |-> S(<<"B", "L", "U", "E">>), value |-> <<Esc(34)>>],
       [name |-> S(<<"M", "A", "G", "E", "N", "T", "A">>), value |-> <<Esc(35)>>],
       [name |-> S(<<"C", "Y", "A", "N">>), value |-> <<Esc(36)>>],
       [name |-> S(<<"L", "I", "G", "H", "T", "_", "G", "R", "A", "Y">>), value |-> <<Esc(37)>>],
       [name |-> S(<<"D", "E", "F", "A", "U", "L", "T">>), value |-> <<Esc(39)>>],
       [name |-> S(<<"D", "A", "R", "K", "_", "G", "R", "A", "Y">>), value |-> <<Esc(90)>>],
       [name |-> S(<<"L", "I", "G", "H", "T", "_", "R", "E", "D">>), value |-> <<Esc(91)>>],
       [name |-> S(<<"L", "I", "G", "H", "T", "_", "G", "R", "E", "E", "N">>), value |-> <<Esc(92)>>],
       [name |-> S(<<"L", "I", "G", "H", "T", "_", "Y", "E", "L", "L", "O", "W">>), value |-> <<Esc(93)>>],
       [name |-> S(<<"L", "I", "G", "H", "T", "_", "B", "L", "U", "E">>), value |-> <<Esc(94)>>],
       [name |-> S(<<"L", "I", "G", "H", "T", "_", "M", "A", "G", "E", "N", "T", "A">>), value |-> <<Esc(95)>>],
       [name |-> S(<<"L", "I", "G", "H", "T", "_", "C", "Y", "A", "N">>), value |-> <<Esc(96)>>],
       [name |-> S(<<"W", "H", "I", "T", "E">>), value |-> <<Esc(97)>>],
       [name |-> S(<<"R", "E", "S", "E", "T">>), value |-> <<Esc(0)>>] >>

BackgroundColor ==
    << [name |-> S(<<"B", "L", "A", "C", "K">>), value |-> <<Esc(40)>>],
       [name |-> S(<<"R", "E", "D">>), value |-> <<Esc(41)>>],
       [name |-> S(<<"G", "R", "E", "E", "N">>), value |-> <<Esc(42)>>],
       [name |-> S(<<"Y", "E", "L", "L", "O", "W">>), value |-> <<Esc(43)>>],
       [name |-> S(<<"B", "L", "U", "E">>), value |-> <<Esc(44)>>],
       [name |-> S(<<"M", "A", "G", "E", "N", "T", "A">>), value |-> <<Esc(45)>>],
       [name |-> S(<<"C", "Y", "A", "N">>), value |-> <<Esc(46)>>],
       [name |-> S(<<"L", "I", "G", "H", "T", "_", "G", "R", "A", "Y">>), value |-> <<Esc(47)>>],
       [name |-> S(<<"D", "E", "F", "A", "U", "L", "T">>), value |-> <<Esc(49)>>],
       [name |-> S(<<"D", "A", "R", "K", "_", "G", "R", "A", "Y">>), value |-> <<Esc(100)>>],
       [name |-> S(<<"L", "I", "G", "H", "T", "_", "R", "E", "D">>), value |-> <<Esc(101)>>],
       [name |-> S(<<"L", "I", "G", "H", "T", "_", "G", "R", "E", "E", "N">>), value |-> <<Esc(102)>>],
       [name |-> S(<<"L", "I", "G", "H", "T", "_", "Y", "E", "L", "L", "O", "W">>), value |-> <<Esc(103)>>],
       [name |-> S(<<"L", "I", "G", "H", "T", "_", "B", "L", "U", "E">>), value |-> <<Esc(104)>>],
       [name |-> S(<<"L", "I", "G", "H", "T", "_", "M", "A", "G", "E", "N", "T", "A">>), value |-> <<Esc(105)>>],
       [name |-> S(<<"L", "I", "G", "H", "T", "_", "C", "Y", "A", "N">>), value |-> <<Esc(106)>>],
       [name |-> S(<<"W", "H", "I", "T", "E">>), value |-> <<Esc(107)>>] >>

----------------------------------------------------------------------------
(* Bounds *)

\* deepest nesting of color_context scopes explored
MaxDepth == 2
\* longest list of style names explored by the resolution specification
MaxStyles == 2
\* nested error notices allowed before a call is declared non-terminating
RecursionLimit == 3

----------------------------------------------------------------------------
(* class Terminal *)

RESET == TerminalColor[18].value

\* {member.name.lower(): member.value for member in enum}
DictOf(enum) == { [key |-> lower(enum[i].name), value |-> enum[i].value] : i \in DOMAIN enum }

_colors == DictOf(TerminalColor)
_backgrounds == DictOf(BackgroundColor)
_styles == DictOf(Style)

HasKey(d, k) == \E e \in d : e.key = k
Get(d, k) == (CHOOSE e \in d : e.key = k).value

\* faulty variant: the opt-out also beats force_color
Terminal_init_optout_first(force, isatty, no_color) ==
    (force \/ isatty) /\ ~Truthy(no_color)

\* Terminal.__init__: the value of _color_enabled
Terminal_init(force, isatty, no_color) ==
    force \/ (isatty /\ ~Truthy(no_color))

\* the functions builtins.print can be bound to
builtin_print == [styled |-> FALSE, codes |-> << >>]
_create_styled_print(style_codes) == [styled |-> TRUE, codes |-> style_codes]

\* faulty variant: the reset is written after end instead of before it
styled_print_reset_last(style_codes, args) ==
    style_codes \o Join(args, S(<<" ">>)) \o S(<<"\n">>) \o RESET

\* the closure styled_print(*args): what it writes to sys.stdout
styled_print(style_codes, args) ==
    style_codes \o Join(args, S(<<" ">>)) \o RESET \o S(<<"\n">>)

\* the original built-in print(*args)
original_print(args) == Join(args, S(<<" ">>)) \o S(<<"\n">>)

\* a call print(*args) through the current binding of builtins.print
CallPrint(p, args) ==
    IF p.styled THEN styled_print(p.codes, args) ELSE original_print(args)

_format_message(message, prefix) ==
    IF Truthy(prefix) THEN S(<<"[">>) \o prefix.s \o S(<<"] ">>) \o message
    ELSE message

\* result of a call: return value, output, final builtins.print, and counters
Result(codes, out, p, notices, depth, diverged) ==
    [codes |-> codes, out |-> out, print |-> p, notices |-> notices,
     depth |-> depth, diverged |-> diverged]

\* _get_style_codes reports an unknown name through print_error, which prints
\* through _print_styled and color_context, which resolves its own request
RECURSIVE _print_styled(_, _, _, _, _, _, _, _)
RECURSIVE func_print_styled(_, _, _, _, _, _, _, _)
RECURSIVE print_error(_, _, _, _, _, _)
RECURSIVE InvalidName(_, _, _, _, _)
RECURSIVE _get_style_codes(_, _, _, _, _, _)
RECURSIVE color_context_enter(_, _, _, _, _, _)

\* faulty variant: the notice is printed in a colour that is not in the table
print_error_crimson(fuel, enabled, p, message, bg, styles) ==
    _print_styled(fuel, enabled, p, message, Str(S(<<"ERROR">>)),
                  Str(S(<<"c","r","i","m","s","o","n">>)), bg, styles)

print_error(fuel, enabled, p, message, bg, styles) ==
    _print_styled(fuel, enabled, p, message, Str(S(<<"ERROR">>)),
                  Str(S(<<"r","e","d">>)), bg, styles)

\* the except KeyError branches: self.print_error(f"Invalid ...: {name}"); return ""
InvalidName(fuel, enabled, p, what, name) ==
    IF fuel = 0 THEN Result(<< >>, << >>, p, 0, 0, TRUE)
    ELSE LET e == print_error(fuel - 1, enabled, p, S(<<what>>) \o name, None, NoStyles)
         IN  Result(<< >>, e.out, e.print, e.notices + 1, e.depth + 1, e.diverged)

RECURSIVE StyleCodes(_)
StyleCodes(style_list) ==
    IF style_list = << >> THEN << >>
    ELSE Get(_styles, lower(style_list[1])) \o StyleCodes(Tail(style_list))

\* the codes of the valid names of a list, skipping the others
RECURSIVE StyleCodesValidOnly(_)
StyleCodesValidOnly(style_list) ==
    IF style_list = << >> THEN << >>
    ELSE (IF HasKey(_styles, lower(style_list[1]))
          THEN Get(_styles, lower(style_list[1])) ELSE << >>)
         \o StyleCodesValidOnly(Tail(style_list))

BadStyles(style_list) ==
    { i \in DOMAIN style_list : ~HasKey(_styles, lower(style_list[i])) }

FirstBadStyle(style_list) ==
    style_list[CHOOSE i \in BadStyles(style_list) : \A j \in BadStyles(style_list) : i <= j]

FgCode(fg) == IF Truthy(fg) THEN Get(_colors, lower(fg.s)) ELSE << >>
BgCode(bg) == IF Truthy(bg) THEN Get(_backgrounds, lower(bg.s)) ELSE << >>

\* faulty variant: an unknown style keeps the codes found so far
_get_style_codes_partial(fuel, enabled, p, fg, bg, styles) ==
    IF Truthy(fg) /\ ~HasKey(_colors, lower(fg.s))
    THEN InvalidName(fuel, enabled, p, "Invalid color: ", fg.s)
    ELSE IF Truthy(bg) /\ ~HasKey(_backgrounds, lower(bg.s))
    THEN InvalidName(fuel, enabled, p, "Invalid background color: ", bg.s)
    ELSE IF StylesTruthy(styles) /\ BadStyles(styles.items) # {}
    THEN [InvalidName(fuel, enabled, p, "Invalid style: ", FirstBadStyle(styles.items))
            EXCEPT !.codes = FgCode(fg) \o BgCode(bg) \o StyleCodesValidOnly(styles.items)]
    ELSE Result(FgCode(fg) \o BgCode(bg)
                  \o (IF StylesTruthy(styles) THEN StyleCodes(styles.items) ELSE << >>),
                << >>, p, 0, 0, FALSE)

_get_style_codes(fuel, enabled, p, fg, bg, styles) ==
    IF Truthy(fg) /\ ~HasKey(_colors, lower(fg.s))
    THEN InvalidName(fuel, enabled, p, "Invalid color: ", fg.s)
    ELSE IF Truthy(bg) /\ ~HasKey(_backgrounds, lower(bg.s))
    THEN InvalidName(fuel, enabled, p, "Invalid background color: ", bg.s)
    ELSE IF StylesTruthy(styles) /\ BadStyles(styles.items) # {}
    THEN InvalidName(fuel, enabled, p, "Invalid style: ", FirstBadStyle(styles.items))
    ELSE Result(FgCode(fg) \o BgCode(bg)
                  \o (IF StylesTruthy(styles) THEN StyleCodes(styles.items) ELSE << >>),
                << >>, p, 0, 0, FALSE)

\* a color_context generator frame suspended at its yield
Frame(fg, bg, styles, saved, style_codes, at_entry) ==
    [fg_color |-> fg, bg_color |-> bg, styles |-> styles, original_print |-> saved,
     style_codes |-> style_codes, at_entry |-> at_entry]

\* color_context up to its yield: the result and the suspended frame
color_context_enter(fuel, enabled, p, fg, bg, styles) ==
    IF ~enabled
    THEN [res |-> Result(<< >>, << >>, p, 0, 0, FALSE), frame |-> Frame(fg, bg, styles, p, << >>, p)]
    ELSE LET r == _get_style_codes(fuel, enabled, p, fg, bg, styles)
         IN  [res |-> [r EXCEPT !.print = _create_styled_print(r.codes)],
              frame |-> Frame(fg, bg, styles, r.print, r.codes, p)]

\* faulty variant: restores the built-in print, not the print the frame saved
color_context_exit_to_builtin(enabled, p, frame) ==
    IF ~enabled THEN Result(<< >>, << >>, p, 0, 0, FALSE)
    ELSE Result(<< >>, RESET, builtin_print, 0, 0, FALSE)

\* faulty variant: no early return, the reset is written without colour support
color_context_exit_always_reset(enabled, p, frame) ==
    Result(<< >>, RESET, IF enabled THEN frame.original_print ELSE p, 0, 0, FALSE)

\* faulty variant: the finally block restores but does not write the reset
color_context_exit_no_reset(enabled, p, frame) ==
    IF ~enabled THEN Result(<< >>, << >>, p, 0, 0, FALSE)
    ELSE Result(<< >>, << >>, frame.original_print, 0, 0, FALSE)

\* color_context after its yield (the return of the disabled path, or the
\* finally block), on normal completion of the body and on an exception alike
color_context_exit(enabled, p, frame) ==
    IF ~enabled THEN Result(<< >>, << >>, p, 0, 0, FALSE)
    ELSE Result(<< >>, RESET, frame.original_print, 0, 0, FALSE)

\* Terminal._print_styled as written, before it is decorated
func_print_styled(fuel, enabled, p, message, prefix, fg, bg, styles) ==
    LET formatted_message == _format_message(message, prefix)
        e == color_context_enter(fuel, enabled, p, fg, bg, styles)
        body == CallPrint(e.res.print, << formatted_message >>)
        x == color_context_exit(enabled, e.res.print, e.frame)
    IN  Result(e.res.codes, e.res.out \o body \o x.out, x.print,
               e.res.notices, e.res.depth, e.res.diverged)

\* self._print_styled: check_terminal_support.wrapper(self, *args) with the
\* five positional arguments every caller passes
_print_styled(fuel, enabled, p, message, prefix, fg, bg, styles) ==
    IF ~enabled
    THEN Result(<< >>,
                CallPrint(p, << message, StrOf(prefix), StrOf(fg), StrOf(bg),
                                StrOfStyles(styles) >>),
                p, 0, 0, FALSE)
    ELSE func_print_styled(fuel, enabled, p, message, prefix, fg, bg, styles)

print_note(fuel, enabled, p, message, bg, styles) ==
    _print_styled(fuel, enabled, p, message, Str(S(<<"NOTE">>)),
                  Str(S(<<"g","r","e","e","n">>)), bg, styles)

print_warning(fuel, enabled, p, message, bg, styles) ==
    _print_styled(fuel, enabled, p, message, Str(S(<<"WARNING">>)),
                  Str(S(<<"y","e","l","l","o","w">>)), bg, styles)

print_info(fuel, enabled, p, message, bg, styles) ==
    _print_styled(fuel, enabled, p, message, Str(S(<<"INFO">>)),
                  Str(S(<<"c","y","a","n">>)), bg, styles)

cprint(fuel, enabled, p, message, fg, bg, styles) ==
    _print_styled(fuel, enabled, p, message, None, fg, bg, styles)

----------------------------------------------------------------------------
(* Inputs *)

Messages == { S(<<"Build ok">>), S(<<"hello">>) }

FgInputs ==
    { Str(S(<<"R","E","D">>)), Str(S(<<"b","l","u","e">>)),
      Str(S(<<"c","h","a","r","t","r","e","u","s","e">>)) }

BgInputs ==
    { None, Str(S(<<"y","e","l","l","o","w">>)), Str(S(<<"m","a","u","v","e">>)) }

StylesInputs ==
    { NoStyles,
      OneStyle(S(<<"b","o","l","d">>)),
      StyleList(<< S(<<"B","o","l","d">>), S(<<"s","p","a","r","k","l","e">>) >>) }

\* the requests a scope is opened with
ContextRequests ==
    { [fg |-> Str(S(<<"r","e","d">>)),
       bg |-> Str(S(<<"l","i","g","h","t","_","g","r","a","y">>)),
       styles |-> StyleList(<< S(<<"b","o","l","d">>),
                               S(<<"u","n","d","e","r","l","i","n","e">>) >>)],
      [fg |-> Str(S(<<"c","h","a","r","t","r","e","u","s","e">>)), bg |-> None,
       styles |-> OneStyle(S(<<"b","o","l","d">>))] }

----------------------------------------------------------------------------
(* State machine *)

NoCall == [op |-> "init", message |-> << >>, fg |-> None, bg |-> None, styles |-> NoStyles]

Observed(p, r) ==
    [entry_print |-> p, codes |-> r.codes, notices |-> r.notices, depth |-> r.depth,
     diverged |-> r.diverged]

Init ==
    /\ force_color \in BOOLEAN
    /\ stdout_isatty \in BOOLEAN
    /\ NO_COLOR \in { None, Str(<< >>), Str(S(<<"1">>)) }
    /\ color_enabled = Terminal_init(force_color, stdout_isatty, NO_COLOR)
    /\ builtins_print = builtin_print
    /\ scopes = << >>
    /\ exc = FALSE
    /\ last = NoCall
    /\ written = << >>
    /\ trace = Observed(builtin_print, Result(<< >>, << >>, builtin_print, 0, 0, FALSE))

\* a complete call that returns r and leaves the open scopes alone
Call(op, message, fg, bg, styles, r) ==
    /\ last' = [op |-> op, message |-> message, fg |-> fg, bg |-> bg, styles |-> styles]
    /\ written' = r.out
    /\ builtins_print' = r.print
    /\ trace' = Observed(builtins_print, r)
    /\ UNCHANGED << force_color, stdout_isatty, NO_COLOR, color_enabled, scopes, exc >>

Cprint ==
    /\ ~exc
    /\ \E m \in Messages, fg \in FgInputs, bg \in BgInputs, st \in StylesInputs :
          Call("cprint", m, fg, bg, st,
               cprint(RecursionLimit, color_enabled, builtins_print, m, fg, bg, st))

PrintNote ==
    /\ ~exc
    /\ \E m \in Messages, bg \in BgInputs, st \in StylesInputs :
          Call("print_note", m, None, bg, st,
               print_note(RecursionLimit, color_enabled, builtins_print, m, bg, st))

PrintWarning ==
    /\ ~exc
    /\ \E m \in Messages, bg \in BgInputs, st \in StylesInputs :
          Call("print_warning", m, None, bg, st,
               print_warning(RecursionLimit, color_enabled, builtins_print, m, bg, st))

PrintError ==
    /\ ~exc
    /\ \E m \in Messages, bg \in BgInputs, st \in StylesInputs :
          Call("print_error", m, None, bg, st,
               print_error(RecursionLimit, color_enabled, builtins_print, m, bg, st))

PrintInfo ==
    /\ ~exc
    /\ \E m \in Messages, bg \in BgInputs, st \in StylesInputs :
          Call("print_info", m, None, bg, st,
               print_info(RecursionLimit, color_enabled, builtins_print, m, bg, st))

\* a print(...) statement of the program, in or out of a scope body
BodyPrint ==
    /\ ~exc
    /\ \E m \in Messages :
          Call("print", m, None, None, NoStyles,
               Result(<< >>, CallPrint(builtins_print, << m >>), builtins_print, 0, 0, FALSE))

\* with term.color_context(fg, bg, styles): runs up to the yield
Enter ==
    /\ ~exc
    /\ Len(scopes) < MaxDepth
    /\ \E req \in ContextRequests :
          LET e == color_context_enter(RecursionLimit, color_enabled, builtins_print,
                                       req.fg, req.bg, req.styles)
          IN  /\ scopes' = Append(scopes, e.frame)
              /\ last' = [op |-> "enter", message |-> << >>, fg |-> req.fg, bg |-> req.bg,
                          styles |-> req.styles]
              /\ written' = e.res.out
              /\ builtins_print' = e.res.print
              /\ trace' = Observed(builtins_print, e.res)
    /\ UNCHANGED << force_color, stdout_isatty, NO_COLOR, color_enabled, exc >>

\* the innermost scope is left: the generator resumes after its yield
Leave(op) ==
    LET frame == scopes[Len(scopes)]
        x == color_context_exit(color_enabled, builtins_print, frame)
    IN  /\ scopes' = SubSeq(scopes, 1, Len(scopes) - 1)
        /\ last' = [NoCall EXCEPT !.op = op]
        /\ written' = x.out
        /\ builtins_print' = x.print
        \* observed against the print that was bound when this scope was entered
        /\ trace' = Observed(frame.at_entry, x)
        /\ UNCHANGED << force_color, stdout_isatty, NO_COLOR, color_enabled >>

\* the body of the innermost scope completes normally
Exit ==
    /\ ~exc
    /\ scopes # << >>
    /\ Leave("exit")
    /\ exc' = FALSE

\* the body of the innermost scope raises: the exception is thrown into the
\* generator at its yield and propagates after the generator has finished
Raise ==
    /\ ~exc
    /\ scopes # << >>
    /\ Leave("exit_error")
    /\ exc' = TRUE

\* the exception passes through the next enclosing with statement
Propagate ==
    /\ exc
    /\ scopes # << >>
    /\ Leave("exit_error")
    /\ exc' = TRUE

\* an except clause of the program handles the exception
Catch ==
    /\ exc
    /\ exc' = FALSE
    /\ last' = [NoCall EXCEPT !.op = "catch"]
    /\ written' = << >>
    /\ trace' = Observed(builtins_print, Result(<< >>, << >>, builtins_print, 0, 0, FALSE))
    /\ UNCHANGED << force_color, stdout_isatty, NO_COLOR, color_enabled, builtins_print,
                    scopes >>

Next ==
    \/ Cprint
    \/ PrintNote
    \/ PrintWarning
    \/ PrintError
    \/ PrintInfo
    \/ BodyPrint
    \/ Enter
    \/ Exit
    \/ Raise
    \/ Propagate
    \/ Catch

Spec == Init /\ [][Next]_vars

----------------------------------------------------------------------------
(* The documented escape-sequence table, written down independently of the   *)
(* enumerations: SGR parameter of each lower-case name.                      *)

DocPalette ==
    << [name |-> S(<<"b","l","a","c","k">>), code |-> 30],
       [name |-> S(<<"r","e","d">>), code |-> 31],
       [name |-> S(<<"g","r","e","e","n">>), code |-> 32],
       [name |-> S(<<"y","e","l","l","o","w">>), code |-> 33],
       [name |-> S(<<"b","l","u","e">>), code |-> 34],
       [name |-> S(<<"m","a","g","e","n","t","a">>), code |-> 35],
       [name |-> S(<<"c","y","a","n">>), code |-> 36],
       [name |-> S(<<"l","i","g","h","t","_","g","r","a","y">>), code |-> 37],
       [name |-> S(<<"d","e","f","a","u","l","t">>), code |-> 39],
       [name |-> S(<<"d","a","r","k","_","g","r","a","y">>), code |-> 90],
       [name |-> S(<<"l","i","g","h","t","_","r","e","d">>), code |-> 91],
       [name |-> S(<<"l","i","g","h","t","_","g","r","e","e","n">>), code |-> 92],
       [name |-> S(<<"l","i","g","h","t","_","y","e","l","l","o","w">>), code |-> 93],
       [name |-> S(<<"l","i","g","h","t","_","b","l","u","e">>), code |-> 94],
       [name |-> S(<<"l","i","g","h","t","_","m","a","g","e","n","t","a">>), code |-> 95],
       [name |-> S(<<"l","i","g","h","t","_","c","y","a","n">>), code |-> 96],
       [name |-> S(<<"w","h","i","t","e">>), code |-> 97] >>

DocStylesAsWritten ==
    << [name |-> S(<<"b","o","l","d">>), code |-> 1],
       [name |-> S(<<"d","i","m">>), code |-> 2],
       [name |-> S(<<"i","t","a","l","i","c">>), code |-> 3],
       [name |-> S(<<"u","n","d","e","r","l","i","n","e">>), code |-> 4],
       [name |-> S(<<"b","l","i","n","k">>), code |-> 5],
       [name |-> S(<<"r","e","v","e","r","s","e">>), code |-> 7],
       [name |-> S(<<"h","i","d","d","e","n">>), code |-> 8],
       [name |-> S(<<"s","t","r","i","k","e","t","h","r","o","u","g","h">>), code |-> 9] >>

DocStyles ==
    << [name |-> S(<<"b","o","l","d">>), code |-> 1],
       [name |-> S(<<"d","i","m">>), code |-> 2],
       [name |-> S(<<"i","t","a","l","i","c">>), code |-> 3],
       [name |-> S(<<"u","n","d","e","r","l","i","n","e">>), code |-> 4],
       [name |-> S(<<"b","l","i","n","k">>), code |-> 5],
       [name |-> S(<<"r","e","v","e","r","s","e">>), code |-> 7],
       [name |-> S(<<"h","i","d","d","e","n">>), code |-> 8],
       [name |-> S(<<"s","t","r","i","k","e">>), code |-> 9] >>

UpperMap == [c \in { LowerCase[i] : i \in DOMAIN LowerCase } |->
                UpperCase[CHOOSE i \in DOMAIN LowerCase : LowerCase[i] = c]]

UpperToken(t) == IF t.txt \in DOMAIN UpperMap THEN T(UpperMap[t.txt]) ELSE t

\* the spellings of a lower-case name that requests are made with
Spell(mode, name) ==
    CASE mode = "lower" -> name
      [] mode = "upper" -> [i \in DOMAIN name |-> UpperToken(name[i])]
      [] OTHER -> [i \in DOMAIN name |-> IF i = 1 THEN UpperToken(name[i]) ELSE name[i]]

Modes == {"lower", "upper", "title"}

Spellings(name) == { Spell(mode, name) : mode \in Modes }

Names(table) == { table[i].name : i \in DOMAIN table }

\* the documented code of a (spelling of a) name, as a str
DocCode(table, shift, s) ==
    LET d == CHOOSE i \in DOMAIN table : s \in Spellings(table[i].name)
    IN  << Esc(table[d].code + shift) >>

RECURSIVE DocCodes(_, _)
DocCodes(table, l) ==
    IF l = << >> THEN << >> ELSE DocCode(table, 0, l[1]) \o DocCodes(table, Tail(l))

----------------------------------------------------------------------------
(* Resolution on its own: _get_style_codes applied once to a request over    *)
(* the documented names in every spelling.                                   *)

RECURSIVE SeqsUpTo(_, _)
SeqsUpTo(set, n) ==
    IF n = 0 THEN { << >> }
    ELSE SeqsUpTo(set, n - 1) \cup [1..n -> set]

ResolveStyleNames == Names(DocStylesAsWritten) \cup Names(DocStyles)

\* the names that lists of several styles are built from
ResolveListNames ==
    { S(<<"b","o","l","d">>), S(<<"u","n","d","e","r","l","i","n","e">>),
      S(<<"s","t","r","i","k","e">>),
      S(<<"s","t","r","i","k","e","t","h","r","o","u","g","h">>) }

ResolveFg(mode) == { None } \cup { Str(Spell(mode, n)) : n \in Names(DocPalette) }
ResolveBg(mode) == { None } \cup { Str(Spell(mode, n)) : n \in Names(DocPalette) }
ResolveStyles(mode) ==
    { NoStyles }
      \cup { OneStyle(Spell(mode, n)) : n \in ResolveStyleNames }
      \cup { StyleList([i \in DOMAIN l |-> Spell(mode, l[i])]) :
               l \in SeqsUpTo(ResolveListNames, MaxStyles) \ { << >> } }

InitResolve ==
    /\ Init
    /\ force_color
    /\ ~stdout_isatty
    /\ NO_COLOR = None

Resolve ==
    /\ last.op = "init"
    /\ \E mode \in Modes :
         \E fg \in ResolveFg(mode), bg \in ResolveBg(mode), st \in ResolveStyles(mode) :
            Call("resolve", << >>, fg, bg, st,
                 _get_style_codes(RecursionLimit, color_enabled, builtins_print, fg, bg, st))

SpecResolve == InitResolve /\ [][Resolve]_vars

----------------------------------------------------------------------------
(* Vocabulary of the properties *)

PrintOps == {"cprint", "print_note", "print_warning", "print_error", "print_info"}
Wrappers == PrintOps \ {"cprint"}
ExitOps == {"exit", "exit_error"}

HasEscape(text) == \E i \in DOMAIN text : text[i].esc # -1
OnlyResets(text) == \A i \in DOMAIN text : text[i].esc \in {-1, 0}

Spelled(table, s) == \E i \in DOMAIN table : s \in Spellings(table[i].name)

\* the prefix and the foreground colour the documentation fixes for a wrapper
PrefixOf(op) ==
    CASE op = "print_note" -> "NOTE"
      [] op = "print_warning" -> "WARNING"
      [] op = "print_error" -> "ERROR"
      [] op = "print_info" -> "INFO"

FixedFg(op) ==
    CASE op = "print_note" -> S(<<"g","r","e","e","n">>)
      [] op = "print_warning" -> S(<<"y","e","l","l","o","w">>)
      [] op = "print_error" -> S(<<"r","e","d">>)
      [] op = "print_info" -> S(<<"c","y","a","n">>)

\* the foreground the last call asked for
AskedFg == IF last.op \in Wrappers THEN Str(FixedFg(last.op)) ELSE last.fg

\* '[PREFIX] message' for a wrapper, the message itself for cprint
Formatted ==
    IF last.op \in Wrappers
    THEN S(<< "[", PrefixOf(last.op), "] " >>) \o last.message
    ELSE last.message

UnknownFg == Truthy(AskedFg) /\ ~Spelled(DocPalette, AskedFg.s)
UnknownBg == Truthy(last.bg) /\ ~Spelled(DocPalette, last.bg.s)
UnknownStyleAt ==
    { i \in DOMAIN last.styles.items : ~Spelled(DocStyles, last.styles.items[i]) }
HasUnknown == UnknownFg \/ UnknownBg \/ UnknownStyleAt # {}

\* the error notice for the first unknown name, in the order foreground,
\* background, styles, as the colour-enabled error path writes it
NoticeText ==
    IF UnknownFg THEN S(<<"Invalid color: ">>) \o AskedFg.s
    ELSE IF UnknownBg THEN S(<<"Invalid background color: ">>) \o last.bg.s
    ELSE S(<<"Invalid style: ">>)
           \o last.styles.items[CHOOSE i \in UnknownStyleAt : \A j \in UnknownStyleAt : i <= j]

Notice ==
    << Esc(31) >> \o S(<< "[", "ERROR", "] " >>) \o NoticeText
        \o << Esc(0) >> \o S(<<"\n">>) \o << Esc(0) >>

NoticeCount ==
    Cardinality({ i \in DOMAIN written :
                    written[i].txt \in {"Invalid color: ", "Invalid background color: ",
                                        "Invalid style: "} })

\* the documented codes of a request whose names are all known
DocPrefix(fg, bg, styles) ==
    (IF Truthy(fg) THEN DocCode(DocPalette, 0, fg.s) ELSE << >>)
      \o (IF Truthy(bg) THEN DocCode(DocPalette, 10, bg.s) ELSE << >>)
      \o DocCodes(DocStyles, styles.items)

IsPrefixOf(a, b) == Len(a) <= Len(b) /\ SubSeq(b, 1, Len(a)) = a

----------------------------------------------------------------------------
(* Properties *)

\* C1: on a Terminal without colour support no call (cprint, the print_*
\* wrappers, entering or leaving color_context, a print in a scope body) ever
\* writes an escape sequence, neither a style code nor the reset ESC[0m.
C1_NoEscapeWhenDisabled ==
    ~color_enabled => ~HasEscape(written) /\ ~builtins_print.styled

C1_Witness ==
    /\ ~color_enabled
    /\ last.op = "exit_error"
    /\ scopes # << >>

\* C2: without colour support every print operation writes exactly the plain
\* formatted message and a newline ('[PREFIX] message' for the wrappers, the
\* message for cprint) and nothing else.
C2_PlainFormattedMessage ==
    (~color_enabled /\ last.op \in PrintOps) => written = Formatted \o S(<<"\n">>)

\* C3 as claimed: every exit of a scope, normal or by an exception, restores
\* builtins.print to the function bound when the scope was entered (the
\* built-in print once no scope is open) and writes the reset ESC[0m.
C3_ExitRestoresAndResets ==
    last.op \in ExitOps =>
        /\ builtins_print = trace.entry_print
        /\ (scopes = << >> => builtins_print = builtin_print)
        /\ written = << Esc(0) >>

\* C3 amended: the restoration holds on every exit; the reset ESC[0m is
\* written on every exit when colour support is on, and nothing is written
\* when it is off.
C3_ExitRestoresAndResetsIfEnabled ==
    last.op \in ExitOps =>
        /\ builtins_print = trace.entry_print
        /\ (scopes = << >> => builtins_print = builtin_print)
        /\ written = IF color_enabled THEN << Esc(0) >> ELSE << >>

C3_Witness ==
    /\ color_enabled
    /\ last.op = "exit_error"
    /\ Len(scopes) = 1
    /\ builtins_print.styled
    /\ builtins_print.codes # << >>

\* the codes the documentation gives the request a scope was opened with
\* (none when one of its names is unknown)
ScopeCodes(frame) ==
    IF \/ Truthy(frame.fg_color) /\ ~Spelled(DocPalette, frame.fg_color.s)
       \/ Truthy(frame.bg_color) /\ ~Spelled(DocPalette, frame.bg_color.s)
       \/ \E i \in DOMAIN frame.styles.items : ~Spelled(DocStyles, frame.styles.items[i])
    THEN << >>
    ELSE DocPrefix(frame.fg_color, frame.bg_color, frame.styles)

\* C4: with colour support, while scopes are open builtins.print is the styled
\* print of the innermost open scope, also after an inner scope has exited,
\* and a print in the body is written with that scope's codes.
C4_StackDiscipline ==
    color_enabled =>
        /\ builtins_print =
              IF scopes = << >> THEN builtin_print
              ELSE [styled |-> TRUE, codes |-> ScopeCodes(scopes[Len(scopes)])]
        /\ (last.op = "print" /\ scopes # << >> =>
              written = ScopeCodes(scopes[Len(scopes)]) \o last.message
                          \o << Esc(0) >> \o S(<<"\n">>))

C4_Witness ==
    /\ color_enabled
    /\ last.op = "exit"
    /\ Len(scopes) = 1
    /\ builtins_print = [styled |-> TRUE,
                         codes |-> << Esc(31), Esc(47), Esc(1), Esc(4) >>]

DocumentedRequest(styles_table) ==
    /\ last.op = "resolve"
    /\ \A i \in DOMAIN last.styles.items : Spelled(styles_table, last.styles.items[i])

ResolvedAs(styles_table) ==
    /\ trace.notices = 0
    /\ written = << >>
    /\ trace.codes =
          (IF Truthy(last.fg) THEN DocCode(DocPalette, 0, last.fg.s) ELSE << >>)
            \o (IF Truthy(last.bg) THEN DocCode(DocPalette, 10, last.bg.s) ELSE << >>)
            \o DocCodes(styles_table, last.styles.items)

\* C5 as claimed: _get_style_codes succeeds on every documented name in any
\* letter case (styles bold, dim, italic, underline, blink, reverse, hidden,
\* strikethrough) and returns the documented codes in the order foreground,
\* background, styles as given.
C5_DocumentedNamesResolve ==
    DocumentedRequest(DocStylesAsWritten) => ResolvedAs(DocStylesAsWritten)

\* C5 amended: the same with the style of ESC[9m under the name the
\* enumeration gives it, strike.
C5_EnumNamesResolve ==
    DocumentedRequest(DocStyles) => ResolvedAs(DocStyles)

C5_Witness ==
    /\ last.op = "resolve"
    /\ last.fg = Str(S(<<"L","I","G","H","T","_","G","R","A","Y">>))
    /\ last.bg = Str(S(<<"W","H","I","T","E">>))
    /\ last.styles = StyleList(<< S(<<"S","T","R","I","K","E">>), S(<<"B","O","L","D">>) >>)
    /\ trace.codes = << Esc(37), Esc(107), Esc(9), Esc(1) >>

\* C6 as claimed: resolving a request with an unknown name writes no escape
\* sequence at all.  Entering a scope writes only what the resolution writes.
C6_UnknownNameWritesNoEscape ==
    (last.op = "enter" /\ HasUnknown) => ~HasEscape(written)

\* C6 amended: resolving a request with an unknown name returns the empty
\* code string, so none of the request's codes styles anything, and writes
\* exactly the error notice for the first unknown name, itself styled:
\* ESC[31m, '[ERROR] Invalid ...: name', ESC[0m, newline, ESC[0m.
C6_UnknownNameWritesOnlyNotice ==
    (color_enabled /\ last.op \in PrintOps \cup {"enter"} /\ HasUnknown) =>
        /\ trace.codes = << >>
        /\ IsPrefixOf(Notice, written)
        /\ OnlyResets(SubSeq(written, Len(Notice) + 1, Len(written)))
        /\ (last.op = "enter" =>
              written = Notice /\ builtins_print = [styled |-> TRUE, codes |-> << >>])

C6_Witness ==
    /\ color_enabled
    /\ last.op = "cprint"
    /\ ~UnknownFg
    /\ ~UnknownBg
    /\ Truthy(last.bg)
    /\ UnknownStyleAt = {2}

\* C7: a print call naming an unknown colour or style prints an error notice
\* and is aborted: its message is not written.
C7_UnknownNameAbortsCall ==
    (last.op \in PrintOps /\ HasUnknown) =>
        /\ NoticeCount = 1
        /\ \A i \in DOMAIN written : \A j \in DOMAIN last.message :
              written[i] # last.message[j]

\* C8 as claimed: with colour support a wrapper writes its fixed foreground
\* code, '[PREFIX] message', the reset, and the newline as the last byte.
C8_WrapperOutputEndsWithNewline ==
    (color_enabled /\ last.op \in Wrappers /\ ~Truthy(last.bg) /\ ~StylesTruthy(last.styles)) =>
        written = DocCode(DocPalette, 0, FixedFg(last.op)) \o Formatted
                    \o << Esc(0) >> \o S(<<"\n">>)

\* C8 amended: the newline is followed by a second reset ESC[0m, written when
\* the scope of the call is left; the codes of a valid background and of valid
\* styles follow the foreground code.
C8_WrapperOutputEndsWithReset ==
    (color_enabled /\ last.op \in Wrappers /\ ~HasUnknown) =>
        written = DocPrefix(Str(FixedFg(last.op)), last.bg, last.styles) \o Formatted
                    \o << Esc(0) >> \o S(<<"\n">>) \o << Esc(0) >>

C8_Witness ==
    /\ color_enabled
    /\ last.op = "print_note"
    /\ last.message = S(<<"Build ok">>)
    /\ ~Truthy(last.bg)
    /\ ~StylesTruthy(last.styles)
    /\ written = << Esc(32), T("["), T("NOTE"), T("] "), T("Build ok"), Esc(0), T("\n"),
                    Esc(0) >>

\* C9 as claimed: a non-empty NO_COLOR switches colour support off whatever
\* force_color and the terminal are; force_color on a non-terminal without the
\* opt-out switches it on.
C9_OptOutIsGlobal ==
    /\ Truthy(NO_COLOR) => ~color_enabled
    /\ (force_color /\ ~stdout_isatty /\ ~Truthy(NO_COLOR)) => color_enabled

\* C9 amended: force_color switches colour support on in every case, the
\* opt-out included; without force_color a non-empty NO_COLOR switches it off
\* whatever the terminal is, and otherwise it is on exactly on a terminal.
C9_ForceOverridesOptOut ==
    /\ force_color => color_enabled
    /\ (~force_color /\ Truthy(NO_COLOR)) => ~color_enabled
    /\ (~force_color /\ ~Truthy(NO_COLOR)) => (color_enabled <=> stdout_isatty)

C9_Witness ==
    /\ force_color
    /\ Truthy(NO_COLOR)
    /\ color_enabled

\* C10: every print call and every scope entry terminates with at most one
\* error notice, nested at most one level deep, for the first unknown name;
\* the call leaves builtins.print as it found it (a scope entry leaves it so
\* until the scope's own print is installed).
C10_CallsTerminate ==
    last.op \in PrintOps \cup {"enter"} =>
        /\ ~trace.diverged
        /\ trace.depth <= 1
        /\ NoticeCount <= 1
        /\ NoticeCount = trace.notices
        /\ (last.op \in PrintOps => builtins_print = trace.entry_print)
        /\ (last.op = "enter" => scopes[Len(scopes)].original_print = trace.entry_print)

C10_Witness ==
    /\ color_enabled
    /\ last.op = "print_error"
    /\ UnknownBg
    /\ NoticeCount = 1
    /\ scopes # << >>
    /\ builtins_print.styled

====
